---- MODULE Spec2Model ----
(***************************************************************************)
(* Model of LabExT's SmarAct MCS2 stage driver                             *)
(* (src/LabExT/Movement/Stages/Stage6DSmarActMCS2.py).                     *)
(*                                                                         *)
(* One Stage6DSmarActMCS2 object, the capability layer (smaract.ctl) it    *)
(* talks to, and the hardware property store behind it.  Every public      *)
(* method is one action.  The capability layer is the environment: what    *)
(* Open returns, the sensor names, status codes and positions the          *)
(* hardware reports, and whether a call raises, are inputs of the action.  *)
(* `calls` is the list of capability-layer calls the last operation made.  *)
(*                                                                         *)
(* Strings that the code inspects (addresses, locators) are tuples of      *)
(* one-character strings.  Python floats are IEEE-754 doubles: a sign, an  *)
(* odd mantissa given as its bits (least significant first) and a binary   *)
(* exponent; products are rounded to 53 bits, ties to even.                *)
(*                                                                         *)
(* The fields _status, _sensor, _position, _speed and _acceleration of a   *)
(* channel are written by every property access and read by nothing; the  *)
(* model keeps the value each access returns (in `calls` and `ret`) and    *)
(* not these stores.                                                       *)
(*                                                                         *)
(* `other` is a second stage object of the same program, `moving` the      *)
(* hardware's moving flags; the variables from mpc on are one call of      *)
(* InsertionLossSteppedSweep.algorithm                                     *)
(* (src/LabExT/Measurements/InsertionLossSteppedSweep.py) and the calls    *)
(* it makes on its laser and its power meter.                              *)
(***************************************************************************)
EXTENDS Integers, Sequences, FiniteSets, TLC

VARIABLES
    driver_loaded,        \* class attribute driver_loaded (MCS_LOADED)
    constructed,          \* a Stage object exists
    address,              \* self.address
    open_new_connection,  \* self.open_new_connection
    Axis,                 \* self.Axis: "Ch123" or "Ch456"
    handle,               \* self.handle (None or an integer)
    channels,             \* self.channels: axis name -> channel, or the empty dict
    connected,            \* self.connected
    sessions,             \* capability layer: the handles of the open sessions
    owned,                \* the open sessions that this stage opened
    hwVelocity,           \* hardware: MOVE_VELOCITY of each channel, pm/s
    hwAcceleration,       \* hardware: MOVE_ACCELERATION of each channel, pm/s^2
    hwMoveMode,           \* hardware: MOVE_MODE of each channel
    pc,                   \* "idle", or "waiting": the last operation is in _wait_for_stopping
    lastOp,               \* name of the last operation called
    args,                 \* its arguments, where the model keeps them
    err,                  \* exception the last operation raised, or "none"
    ret,                  \* value the last operation returned
    calls,                \* capability-layer calls of the last operation
    other,                \* the second stage object of the program, as a record of its fields
    moving,               \* hardware: the channels that are actively moving
    mpc,                  \* InsertionLossSteppedSweep.algorithm: where the call stands
    parameters,           \* its argument `parameters`: the values of the wavelength entries
    start_lambda,         \* its local start_lambda
    end_lambda,           \* its local end_lambda
    number_of_points,     \* its local number_of_points
    wavelengths,          \* its local wavelengths
    power_data,           \* its local power_data
    instr,                \* the laser and the power meter: connection open, laser output on
    ilog,                 \* the calls made on the two instruments, in order
    data,                 \* data['values'] as the call returns it
    merr                  \* the exception the call raised, or "none"

stageVars == <<constructed, address, open_new_connection, Axis, handle, channels, connected>>
hwVars == <<sessions, owned, hwVelocity, hwAcceleration, hwMoveMode>>
sweepVars == <<mpc, parameters, start_lambda, end_lambda, number_of_points, wavelengths,
               power_data, instr, ilog, data, merr>>
vars == <<driver_loaded, stageVars, hwVars, pc, lastOp, args, err, ret, calls, other, moving,
          sweepVars>>

(***************************************************************************)
(* Bounds.                                                                 *)
(***************************************************************************)
MaxHandle == 2      \* Open returns a handle in 1..MaxHandle, or null
MaxPolls == 2       \* status polls of one wait

None == -1          \* Python's None where the field otherwise holds an integer
NoHandle == 0       \* the null handle ctl.Open may return

(***************************************************************************)
(* Strings.                                                                *)
(***************************************************************************)
Tag123 == <<"C", "h", "1", "-", "3">>
Tag456 == <<"C", "h", "4", "-", "6">>
Suffix123 == <<"_">> \o Tag123
Suffix456 == <<"_">> \o Tag456

\* Python: sub in s
Contains(s, sub) ==
    \E i \in 1..(Len(s) - Len(sub) + 1) : SubSeq(s, i, i + Len(sub) - 1) = sub

\* Python: s.endswith(suf)
EndsWith(s, suf) ==
    /\ Len(s) >= Len(suf)
    /\ SubSeq(s, Len(s) - Len(suf) + 1, Len(s)) = suf

\* Python: s.removesuffix(suf)
RemoveSuffix(s, suf) ==
    IF EndsWith(s, suf) THEN SubSeq(s, 1, Len(s) - Len(suf)) ELSE s

LocA == <<"A">>

\* the address strings a caller hands to the constructor
Addresses ==
    { LocA \o Suffix123,
      LocA \o Suffix456,
      LocA,
      Tag456 \o LocA }

(***************************************************************************)
(* Natural numbers as bits (least significant first) and as limbs of 15    *)
(* bits, so that products of 53-bit mantissas stay inside TLC's integers.  *)
(***************************************************************************)
LimbBase == 2^15

RECURSIVE NatToBits(_)
NatToBits(n) == IF n = 0 THEN <<>> ELSE <<n % 2>> \o NatToBits(n \div 2)

RECURSIVE BitsToNat(_)
BitsToNat(b) == IF b = <<>> THEN 0 ELSE b[1] + 2 * BitsToNat(Tail(b))

FixedBits(n, w) == [i \in 1..w |-> (n \div 2^(i - 1)) % 2]

\* hexadecimal digits, most significant first, to bits
RECURSIVE HexBits(_)
HexBits(h) ==
    IF h = <<>> THEN <<>>
    ELSE FixedBits(h[Len(h)], 4) \o HexBits(SubSeq(h, 1, Len(h) - 1))

RECURSIVE StripTop(_)
StripTop(b) ==
    IF b = <<>> THEN <<>>
    ELSE IF b[Len(b)] = 0 THEN StripTop(SubSeq(b, 1, Len(b) - 1))
    ELSE b

RECURSIVE TrailingZeros(_)
TrailingZeros(b) ==
    IF b = <<>> \/ b[1] = 1 THEN 0 ELSE 1 + TrailingZeros(Tail(b))

RECURSIVE Inc(_)
Inc(b) ==
    IF b = <<>> THEN <<1>>
    ELSE IF b[1] = 0 THEN <<1>> \o Tail(b)
    ELSE <<0>> \o Inc(Tail(b))

RECURSIVE ToLimbs(_)
ToLimbs(b) ==
    IF b = <<>> THEN <<>>
    ELSE IF Len(b) <= 15 THEN <<BitsToNat(b)>>
    ELSE <<BitsToNat(SubSeq(b, 1, 15))>> \o ToLimbs(SubSeq(b, 16, Len(b)))

RECURSIVE LimbsToBits(_)
LimbsToBits(l) ==
    IF l = <<>> THEN <<>> ELSE FixedBits(l[1], 15) \o LimbsToBits(Tail(l))

RECURSIVE MulLimbSmall(_, _, _)
MulLimbSmall(l, k, carry) ==
    IF l = <<>> THEN (IF carry = 0 THEN <<>> ELSE <<carry>>)
    ELSE LET t == l[1] * k + carry
         IN  <<t % LimbBase>> \o MulLimbSmall(Tail(l), k, t \div LimbBase)

RECURSIVE AddLimbs(_, _, _)
AddLimbs(a, b, carry) ==
    IF a = <<>> /\ b = <<>> THEN (IF carry = 0 THEN <<>> ELSE <<carry>>)
    ELSE LET x == IF a = <<>> THEN 0 ELSE a[1]
             y == IF b = <<>> THEN 0 ELSE b[1]
             t == x + y + carry
         IN  <<t % LimbBase>>
                \o AddLimbs(IF a = <<>> THEN <<>> ELSE Tail(a),
                            IF b = <<>> THEN <<>> ELSE Tail(b),
                            t \div LimbBase)

RECURSIVE MulLimbs(_, _)
MulLimbs(a, b) ==
    IF b = <<>> THEN <<>>
    ELSE AddLimbs(MulLimbSmall(a, b[1], 0), <<0>> \o MulLimbs(a, Tail(b)), 0)

(***************************************************************************)
(* IEEE-754 doubles.                                                       *)
(***************************************************************************)
FZero == [neg |-> FALSE, m |-> <<>>, e |-> 0]

\* the double of value (+/-) b * 2^e, b of at most 53 bits
Canon(neg, b, e) ==
    LET t == StripTop(b)
    IN  IF t = <<>> THEN FZero
        ELSE LET z == TrailingZeros(t)
             IN  [neg |-> neg, m |-> SubSeq(t, z + 1, Len(t)), e |-> e + z]

\* round b * 2^e to 53 significant bits, to nearest, ties to even
Round53(b, e) ==
    IF Len(b) <= 53 THEN <<b, e>>
    ELSE LET k == Len(b) - 53
             kept == SubSeq(b, k + 1, Len(b))
             guard == b[k]
             sticky == \E i \in 1..(k - 1) : b[i] = 1
             up == guard = 1 /\ (sticky \/ kept[1] = 1)
         IN  <<IF up THEN Inc(kept) ELSE kept, e + k>>

\* Python: x * y on floats
FMul(x, y) ==
    IF x.m = <<>> \/ y.m = <<>> THEN FZero
    ELSE LET p == StripTop(LimbsToBits(MulLimbs(ToLimbs(x.m), ToLimbs(y.m))))
             r == Round53(p, x.e + y.e)
         IN  Canon(x.neg # y.neg, r[1], r[2])

\* Python: float(n) for an int n
FromInt(n) == Canon(n < 0, NatToBits(IF n < 0 THEN -n ELSE n), 0)

\* Python: int(x) for a float x, truncation toward zero
Trunc(x) ==
    LET mag == IF x.e >= 0 THEN BitsToNat(x.m) * 2^(x.e)
               ELSE BitsToNat(SubSeq(x.m, 1 - x.e, Len(x.m)))
    IN  IF x.neg THEN -mag ELSE mag

\* the literal 1e-6: 0x1.0c6f7a0b5ed8dp-20
F1eM6 == Canon(FALSE, HexBits(<<1, 0, 12, 6, 15, 7, 10, 0, 11, 5, 14, 13, 8, 13>>), -72)
\* the literal 1e6
F1e6 == FromInt(1000000)

\* the double next below the literal 1e-6: 0x1.0c6f7a0b5ed8cp-20
F1eM6_Below == Canon(FALSE, HexBits(<<1, 0, 12, 6, 15, 7, 10, 0, 11, 5, 14, 13, 8, 12>>), -72)

\* a variant of _to_micrometer whose factor is one unit in the last place off
to_micrometer_FactorBelow(picometer) == FMul(FromInt(picometer), F1eM6_Below)

\* _Channel._to_micrometer
to_micrometer(picometer) == FMul(FromInt(picometer), F1eM6)

\* _Channel._to_picometer
to_picometer(micrometer) == Trunc(FMul(micrometer, F1e6))

F300 == FromInt(300)
F20 == FromInt(20)
F5 == FromInt(5)
FHalf == Canon(FALSE, <<1>>, -1)

\* the value the hardware properties hold before the program writes them
HwInitial == 1000000


\* the speeds and accelerations a caller sets, um/s and um/s^2
SpeedInputs == { FHalf }
AccelerationInputs == { FHalf }

\* the positions the hardware reports, pm
PositionsPm == { 0, -1500000 }

\* the two conversions on the values that occur, computed once
MicrometerValues == { FZero, F5, F20, F300 } \cup SpeedInputs \cup AccelerationInputs
PicometerOf == [x \in MicrometerValues |-> to_picometer(x)]
PicometerValues == { HwInitial } \cup PositionsPm \cup { PicometerOf[x] : x \in MicrometerValues }
MicrometerOf == [n \in PicometerValues |-> to_micrometer(n)]

(***************************************************************************)
(* The capability layer (smaract.ctl) and the configuration enums.         *)
(***************************************************************************)
Axes == <<"X", "Y", "Z">>

\* LabExT.Movement.config: Axis_Ch123 and Axis_Ch456, axis -> channel index
AxisValue(mapping, i) == IF mapping = "Ch123" THEN i - 1 ELSE i + 2

ChannelIndices == 0..5

\* _Channel.LINEAR_SENSORS
LINEAR_SENSORS ==
    IF driver_loaded
    THEN { "SL...S1SS", "SL...S1ME", "SL...S1SC1", "SL...T1SS", "SL...D1SS",
           "SL...D1SC2", "SL...D1SC1", "SL...D1ME", "CT002/AT002" }
    ELSE {}

\* the positioner type names the hardware may report
SensorTypes == { "SL...S1SS", "SR...S1SS" }


\* one capability-layer call: function, handle, channel, property, integer
\* value, string value, locator, and whether it returned (ok) or raised
Call(fn, h, ch, p, v, s, loc) ==
    [fn |-> fn, h |-> h, ch |-> ch, p |-> p, v |-> v, s |-> s, loc |-> loc, ok |-> TRUE]

COpen(loc, res) == Call("Open", res, -1, "", 0, "", loc)
CClose(h) == Call("Close", h, -1, "", 0, "", <<>>)
CGetS(h, ch, p, s) == Call("GetProperty_s", h, ch, p, 0, s, <<>>)
CGet32(h, ch, p, v) == Call("GetProperty_i32", h, ch, p, v, "", <<>>)
CGet64(h, ch, p, v) == Call("GetProperty_i64", h, ch, p, v, "", <<>>)
CSet32(h, ch, p, s) == Call("SetProperty_i32", h, ch, p, 0, s, <<>>)
CSet64(h, ch, p, v) == Call("SetProperty_i64", h, ch, p, v, "", <<>>)
CMove(h, ch, v) == Call("Move", h, ch, "", v, "", <<>>)
CStop(h, ch) == Call("Stop", h, ch, "", 0, "", <<>>)
CFindDevices(buffer) == Call("FindDevices", -1, -1, "", 0, "", buffer)

\* the calls of `planned` that are made when call number f raises
Raised(planned, f) == f \in 1..Len(planned)

Executed(planned, f) ==
    IF Raised(planned, f)
    THEN SubSeq(planned, 1, f - 1) \o <<[planned[f] EXCEPT !.ok = FALSE]>>
    ELSE planned

\* the hardware property `p` of every channel after the calls cs
RECURSIVE PropertyAfter(_, _, _)
PropertyAfter(p, store, cs) ==
    IF cs = <<>> THEN store
    ELSE LET c == cs[1]
             hit == c.ok /\ c.fn \in {"SetProperty_i64", "SetProperty_i32"} /\ c.p = p
             new == IF c.fn = "SetProperty_i32" THEN c.s ELSE c.v
         IN  PropertyAfter(p, IF hit THEN [store EXCEPT ![c.ch] = new] ELSE store, Tail(cs))

HardwareAfter(cs) ==
    /\ hwVelocity' = PropertyAfter("MOVE_VELOCITY", hwVelocity, cs)
    /\ hwAcceleration' = PropertyAfter("MOVE_ACCELERATION", hwAcceleration, cs)
    /\ hwMoveMode' = PropertyAfter("MOVE_MODE", hwMoveMode, cs)

(***************************************************************************)
(* Results and the decorators of LabExT.Movement.Stage.                    *)
(***************************************************************************)
RNone == [t |-> "none"]
RBool(b) == [t |-> "bool", v |-> b]
RNum(x) == [t |-> "num", v |-> x]
RList(l) == [t |-> "list", v |-> l]

ReturnOf(op, a, e, r, cs) ==
    /\ lastOp' = op
    /\ args' = a
    /\ err' = e
    /\ ret' = r
    /\ calls' = cs

\* the same for an operation whose arguments the model does not keep
Return(op, e, r, cs) == ReturnOf(op, <<>>, e, r, cs)

\* the methods decorated with @assert_driver_loaded
DriverGated ==
    { "find_stage_addresses", "connect", "disconnect", "find_reference_mark",
      "set_speed_xy", "get_speed_xy", "set_speed_z", "get_speed_z",
      "set_acceleration_xy", "get_acceleration_xy", "get_status", "is_stopped",
      "get_position", "move_relative", "move_absolute" }

\* a variant of ConnectGated: disconnect without @assert_stage_connected
ConnectGated_NoDisconnect == DriverGated \ { "find_stage_addresses", "connect", "disconnect" }

\* the methods decorated with @assert_stage_connected
ConnectGated == DriverGated \ { "find_stage_addresses", "connect" }

\* @assert_driver_loaded outside @assert_stage_connected
GateError(op) ==
    IF op \in DriverGated /\ ~driver_loaded THEN "DriverUnavailable"
    ELSE IF op \in ConnectGated /\ ~connected THEN "NotConnected"
    ELSE "none"

\* a decorator raised: the method body did not run
Rejected(op) ==
    /\ Return(op, GateError(op), RNone, <<>>)
    /\ UNCHANGED <<stageVars, hwVars, pc>>

(***************************************************************************)
(* Construction.                                                           *)
(***************************************************************************)
\* a stage object that is not constructed yet
NotConstructed ==
    [constructed |-> FALSE, address |-> <<>>, open_new_connection |-> FALSE,
     Axis |-> "none", handle |-> None, channels |-> <<>>, connected |-> FALSE,
     owned |-> {}]

Init ==
    /\ driver_loaded \in BOOLEAN
    /\ constructed = FALSE
    /\ address = <<>>
    /\ open_new_connection = FALSE
    /\ Axis = "none"
    /\ handle = None
    /\ channels = <<>>
    /\ connected = FALSE
    /\ sessions = {}
    /\ owned = {}
    /\ hwVelocity = [i \in ChannelIndices |-> HwInitial]
    /\ hwAcceleration = [i \in ChannelIndices |-> HwInitial]
    /\ hwMoveMode = [i \in ChannelIndices |-> "CL_ABSOLUTE"]
    /\ pc = "idle"
    /\ lastOp = "none"
    /\ args = <<>>
    /\ err = "none"
    /\ ret = RNone
    /\ calls = <<>>
    /\ other = NotConstructed
    /\ moving = {}
    /\ mpc = "idle"
    /\ parameters = [start |-> 0, stop |-> 0, step |-> 0]
    /\ start_lambda = 0
    /\ end_lambda = 0
    /\ number_of_points = 0
    /\ wavelengths = <<>>
    /\ power_data = <<>>
    /\ instr = [laser_open |-> FALSE, pm_open |-> FALSE, enable |-> FALSE]
    /\ ilog = <<>>
    /\ data = [transmission |-> <<>>, wavelength |-> <<>>]
    /\ merr = "none"

\* Stage6DSmarActMCS2.__init__
Construct(addr) ==
    /\ ~constructed
    /\ pc = "idle"
    /\ UNCHANGED <<driver_loaded, other, moving, sweepVars, hwVars, pc>>
    /\ handle' = None
    /\ channels' = <<>>
    /\ IF Contains(addr, Tag123)
       THEN /\ Axis' = "Ch123"
            /\ open_new_connection' = TRUE
            /\ address' = addr
            /\ connected' = FALSE
            /\ constructed' = TRUE
            /\ Return("__init__", "none", RNone, <<>>)
       ELSE IF Contains(addr, Tag456)
       THEN /\ Axis' = "Ch456"
            /\ open_new_connection' = FALSE
            /\ address' = addr
            /\ connected' = FALSE
            /\ constructed' = TRUE
            /\ Return("__init__", "none", RNone, <<>>)
       ELSE /\ UNCHANGED <<Axis, open_new_connection, address, connected, constructed>>
            /\ Return("__init__", "InvalidAddress", RList(addr), <<>>)

(***************************************************************************)
(* Speed and acceleration.                                                 *)
(***************************************************************************)

\* _Channel.speed (setter)
speed_set(h, ch, umps) == <<CSet64(h, ch.index, "MOVE_VELOCITY", PicometerOf[umps])>>

\* _Channel.acceleration (setter)
acceleration_set(h, ch, umps2) ==
    <<CSet64(h, ch.index, "MOVE_ACCELERATION", PicometerOf[umps2])>>

\* the body of set_speed_xy
set_speed_xy(h, chs, umps) == speed_set(h, chs[1], umps) \o speed_set(h, chs[2], umps)

\* a variant of set_speed_z that writes the Y channel
set_speed_z_WrongChannel(h, chs, umps) == speed_set(h, chs[2], umps)

\* the body of set_speed_z
set_speed_z(h, chs, umps) == speed_set(h, chs[3], umps)

\* the body of set_acceleration_xy
set_acceleration_xy(h, chs, umps2) ==
    acceleration_set(h, chs[1], umps2) \o acceleration_set(h, chs[2], umps2)

(***************************************************************************)
(* connect and disconnect.                                                 *)
(***************************************************************************)
\* _Channel.is_sensor_linear
is_sensor_linear(sensor) == sensor \in LINEAR_SENSORS

\* _Channel.__init__ for the three axes of self.Axis; id tells a new object
\* from the one it replaces in self.channels
NewChannels ==
    [i \in 1..3 |-> [axis |-> Axes[i],
                     index |-> AxisValue(Axis, i),
                     name |-> Axes[i],
                     id |-> IF channels = <<>> THEN 0 ELSE 1 - channels[i].id,
                     movement_mode |-> "CL_RELATIVE"]]

\* _raise_if_sensor_non_linear: the sensor reads up to the first non-linear one
SensorReads(h, chs, sens) ==
    LET bad == {i \in 1..3 : ~is_sensor_linear(sens[i])}
        last == IF bad = {} THEN 3 ELSE CHOOSE i \in bad : \A j \in bad : i <= j
    IN  [i \in 1..last |-> CGetS(h, chs[i].index, "POSITIONER_TYPE_NAME", sens[i])]

\* a variant of ConnectCalls that applies the defaults before the sensor check
ConnectCalls_DefaultsFirst(chs, sens) ==
    set_speed_xy(1, chs, F300)
        \o set_speed_z(1, chs, F20)
        \o set_acceleration_xy(1, chs, FZero)
        \o SensorReads(1, chs, sens)

\* the capability-layer calls of connect after Open, lines 305-310, for the
\* sensor names sens: all of them, when none raises
ConnectCalls(chs, sens) ==
    IF \E i \in 1..3 : ~is_sensor_linear(sens[i])
    THEN SensorReads(1, chs, sens)
    ELSE SensorReads(1, chs, sens)
            \o set_speed_xy(1, chs, F300)
            \o set_speed_z(1, chs, F20)
            \o set_acceleration_xy(1, chs, FZero)

\* connect from line 301 on, with self.handle = 1; pre: the calls made so far,
\* planned: the calls to make, of which call f raises
ConnectChannels(pre, chs, sens, planned, f) ==
    LET nonLinear == \E i \in 1..3 : ~is_sensor_linear(sens[i])
        done == Executed(planned, f)
    IN  /\ HardwareAfter(done)
        /\ IF Raised(planned, f) \/ nonLinear
           THEN /\ connected' = FALSE
                /\ handle' = None
                /\ channels' = <<>>
                /\ Return("connect",
                          IF Raised(planned, f) THEN "CtlError" ELSE "NonLinearSensor",
                          RNone, pre \o done)
           ELSE /\ connected' = TRUE
                /\ handle' = 1
                /\ channels' = chs
                /\ Return("connect", "none", RBool(TRUE), pre \o done)

\* the sensor names the channels report and the call that raises, if any
ConnectAny(pre) ==
    \E sens \in [1..3 -> SensorTypes] :
        \E f \in 0..Len(ConnectCalls(NewChannels, sens)) :
            ConnectChannels(pre, NewChannels, sens, ConnectCalls(NewChannels, sens), f)

\* _open_system
open_system_result(res) == IF res # NoHandle THEN res ELSE None

\* connect, lines 294-297: the stage opens its own session
ConnectOpen(res, raises) ==
    LET open == COpen(RemoveSuffix(address, Suffix123), res)
    IN  /\ res \in (0..MaxHandle) \ sessions
        /\ IF raises
           THEN /\ Return("connect", "CtlError", RNone, <<[open EXCEPT !.ok = FALSE]>>)
                /\ UNCHANGED <<handle, channels, connected, hwVars>>
           ELSE /\ sessions' = sessions \cup ({res} \ {NoHandle})
                /\ owned' = owned \cup ({res} \ {NoHandle})
                /\ IF open_system_result(res) # 1
                   THEN /\ handle' = open_system_result(res)
                        /\ Return("connect", "HandleNot1", RNone, <<open>>)
                        /\ UNCHANGED <<channels, connected,
                                       hwVelocity, hwAcceleration, hwMoveMode>>
                   ELSE ConnectAny(<<open>>)

\* a variant of connect without the early return of lines 290-292
Connect_NoEarlyReturn ==
    /\ constructed
    /\ pc = "idle"
    /\ UNCHANGED <<driver_loaded, other, moving, sweepVars, constructed, address, open_new_connection, Axis, pc>>
    /\ IF GateError("connect") # "none"
       THEN /\ Return("connect", GateError("connect"), RNone, <<>>)
            /\ UNCHANGED <<handle, channels, connected, hwVars>>
       ELSE IF open_new_connection
       THEN \E res \in 0..MaxHandle, raises \in BOOLEAN : ConnectOpen(res, raises)
       ELSE /\ ConnectAny(<<>>)
            /\ UNCHANGED <<sessions, owned>>

\* Stage6DSmarActMCS2.connect
Connect ==
    /\ constructed
    /\ pc = "idle"
    /\ UNCHANGED <<driver_loaded, other, moving, sweepVars, constructed, address, open_new_connection, Axis, pc>>
    /\ IF GateError("connect") # "none"
       THEN /\ Return("connect", GateError("connect"), RNone, <<>>)
            /\ UNCHANGED <<handle, channels, connected, hwVars>>
       ELSE IF connected
       THEN /\ Return("connect", "none", RBool(TRUE), <<>>)
            /\ UNCHANGED <<handle, channels, connected, hwVars>>
       ELSE IF open_new_connection
       THEN \E res \in 0..MaxHandle, raises \in BOOLEAN : ConnectOpen(res, raises)
       ELSE /\ ConnectAny(<<>>)
            /\ UNCHANGED <<sessions, owned>>

\* a variant of disconnect that closes the session whoever opened it
Disconnect_AlwaysCloses ==
    /\ constructed
    /\ pc = "idle"
    /\ UNCHANGED <<driver_loaded, other, moving, sweepVars, constructed, address, open_new_connection, Axis, pc,
                   channels, hwVelocity, hwAcceleration, hwMoveMode>>
    /\ IF GateError("disconnect") # "none"
       THEN /\ Return("disconnect", GateError("disconnect"), RNone, <<>>)
            /\ UNCHANGED <<handle, connected, sessions, owned>>
       ELSE /\ sessions' = sessions \ {handle}
            /\ owned' = owned \ {handle}
            /\ Return("disconnect", "none", RNone, <<CClose(handle)>>)
            /\ connected' = FALSE
            /\ handle' = None

\* Stage6DSmarActMCS2.disconnect
Disconnect ==
    /\ constructed
    /\ pc = "idle"
    /\ UNCHANGED <<driver_loaded, other, moving, sweepVars, constructed, address, open_new_connection, Axis, pc,
                   channels, hwVelocity, hwAcceleration, hwMoveMode>>
    /\ IF GateError("disconnect") # "none"
       THEN /\ Return("disconnect", GateError("disconnect"), RNone, <<>>)
            /\ UNCHANGED <<handle, connected, sessions, owned>>
       ELSE /\ IF open_new_connection
               THEN /\ sessions' = sessions \ {handle}
                    /\ owned' = owned \ {handle}
                    /\ Return("disconnect", "none", RNone, <<CClose(handle)>>)
               ELSE /\ UNCHANGED <<sessions, owned>>
                    /\ Return("disconnect", "none", RNone, <<>>)
            /\ connected' = FALSE
            /\ handle' = None

(***************************************************************************)
(* Stage settings and status.                                              *)
(***************************************************************************)
\* smaract.ctl.ChannelState, in definition order
ChannelState ==
    << [name |-> "ACTIVELY_MOVING", value |-> 1],
       [name |-> "CLOSED_LOOP_ACTIVE", value |-> 2],
       [name |-> "CALIBRATING", value |-> 4],
       [name |-> "REFERENCING", value |-> 8],
       [name |-> "MOVE_DELAYED", value |-> 16],
       [name |-> "SENSOR_PRESENT", value |-> 32],
       [name |-> "IS_CALIBRATED", value |-> 64],
       [name |-> "IS_REFERENCED", value |-> 128],
       [name |-> "END_STOP_REACHED", value |-> 256],
       [name |-> "RANGE_LIMIT_REACHED", value |-> 512],
       [name |-> "FOLLOWING_LIMIT_REACHED", value |-> 1024],
       [name |-> "MOVEMENT_FAILED", value |-> 2048],
       [name |-> "IS_STREAMING", value |-> 4096],
       [name |-> "POSITIONER_OVERLOAD", value |-> 8192],
       [name |-> "OVER_TEMPERATURE", value |-> 16384],
       [name |-> "REFERENCE_MARK", value |-> 32768],
       [name |-> "IS_PHASED", value |-> 65536],
       [name |-> "POSITIONER_FAULT", value |-> 131072],
       [name |-> "AMPLIFIER_ENABLED", value |-> 262144],
       [name |-> "IN_POSITION", value |-> 524288],
       [name |-> "BRAKE_ENABLED", value |-> 1048576] >>

\* the channel state codes the hardware reports: no flag, moving, another
\* flag, both, a bit that is no flag, that bit and moving
StatusCodes == { 0, 1, 32, 33, 2097152, 2097153 }

\* what the three channels report in one query: every combination of moving
\* and not moving; other flags and bits that are no flag, with and without
\* the moving bit
StatusInputs ==
    [1..3 -> {0, 1}]
        \cup { <<32, 32, 32>>, <<32, 33, 32>>, <<2097152, 2097152, 2097152>>,
               <<2097153, 0, 32>>, <<0, 2097152, 33>>, <<32, 0, 2097152>> }

\* Python: a & b on non-negative integers
RECURSIVE BitAnd(_, _)
BitAnd(a, b) ==
    IF a = 0 \/ b = 0 THEN 0
    ELSE (a % 2) * (b % 2) + 2 * BitAnd(a \div 2, b \div 2)

\* a variant of humanized_status without the placeholder
humanized_status_NoPlaceholder(status_code) ==
    LET states == SelectSeq(ChannelState, LAMBDA state : BitAnd(status_code, state.value) # 0)
    IN  [i \in 1..Len(states) |-> states[i].name]

\* _Channel.humanized_status for the status code read
humanized_status(status_code) ==
    LET states == SelectSeq(ChannelState, LAMBDA state : BitAnd(status_code, state.value) # 0)
    IN  IF states = <<>>
        THEN << "Unknown status code: " \o ToString(status_code) >>
        ELSE [i \in 1..Len(states) |-> states[i].name]

\* what the channels report at one poll of _wait_for_stopping or one get_status
PollInputs == { <<0, 32, 0>>, <<32, 32, 33>> }

\* humanized_status on the codes that occur, computed once
HumanizedOf == [c \in StatusCodes |-> humanized_status(c)]

\* Python: x in l, for a list l
InList(x, l) == \E i \in 1..Len(l) : l[i] = x

\* the reads of get_status, st[i] the code channel i reports
status_reads(st) ==
    [i \in 1..3 |-> CGet32(handle, channels[i].index, "CHANNEL_STATE", st[i])]

\* the value of get_status
status_value(st) == [i \in 1..3 |-> HumanizedOf[st[i]]]

\* a variant of is_stopped that looks at the X channel only
is_stopped_value_OnlyX(st) == ~ InList("ACTIVELY_MOVING", status_value(st)[1])

\* the value of is_stopped
is_stopped_value(st) ==
    ~ \E i \in 1..3 : InList("ACTIVELY_MOVING", status_value(st)[i])

\* the decorators of a method with both of them raise
Gated(op) ==
    /\ GateError(op) # "none"
    /\ Return(op, GateError(op), RNone, <<>>)
    /\ UNCHANGED <<hwVelocity, hwAcceleration, hwMoveMode>>

\* the body of such a method: it makes the calls `planned` and returns `result`
BodyOf(op, a, planned, result) ==
    /\ GateError(op) = "none"
    /\ HardwareAfter(planned)
    /\ ReturnOf(op, a, "none", result, planned)

\* the same for a method whose arguments the model does not keep
Body(op, planned, result) == BodyOf(op, <<>>, planned, result)

\* what a method that changes nothing but hardware properties leaves alone
Frame ==
    /\ constructed
    /\ pc = "idle"
    /\ UNCHANGED <<driver_loaded, other, moving, sweepVars, stageVars, sessions, owned, pc>>

\* _Channel.speed (getter): the read, and the value returned
speed_get(ch) == <<CGet64(handle, ch.index, "MOVE_VELOCITY", hwVelocity[ch.index])>>
speed_value(ch) == MicrometerOf[hwVelocity[ch.index]]

\* _Channel.acceleration (getter)
acceleration_get(ch) ==
    <<CGet64(handle, ch.index, "MOVE_ACCELERATION", hwAcceleration[ch.index])>>
acceleration_value(ch) == MicrometerOf[hwAcceleration[ch.index]]

\* Stage6DSmarActMCS2.find_reference_mark: the first channel raises
FindReferenceMark ==
    /\ constructed
    /\ pc = "idle"
    /\ UNCHANGED <<driver_loaded, other, moving, sweepVars, stageVars, hwVars, pc>>
    /\ IF GateError("find_reference_mark") # "none"
       THEN Return("find_reference_mark", GateError("find_reference_mark"), RNone, <<>>)
       ELSE Return("find_reference_mark", "NotImplementedError", RNone, <<>>)

\* Stage6DSmarActMCS2.set_speed_xy
SetSpeedXY ==
    /\ Frame
    /\ \/ Gated("set_speed_xy")
       \/ \E umps \in SpeedInputs :
             BodyOf("set_speed_xy", <<umps>>, set_speed_xy(handle, channels, umps), RNone)

\* Stage6DSmarActMCS2.get_speed_xy
GetSpeedXY ==
    /\ Frame
    /\ \/ Gated("get_speed_xy")
       \/ Body("get_speed_xy", speed_get(channels[1]) \o speed_get(channels[2]),
               RNum(speed_value(channels[1])))

\* Stage6DSmarActMCS2.set_speed_z
SetSpeedZ ==
    /\ Frame
    /\ \/ Gated("set_speed_z")
       \/ \E umps \in SpeedInputs :
             BodyOf("set_speed_z", <<umps>>, set_speed_z(handle, channels, umps), RNone)

\* Stage6DSmarActMCS2.get_speed_z
GetSpeedZ ==
    /\ Frame
    /\ \/ Gated("get_speed_z")
       \/ Body("get_speed_z", speed_get(channels[3]), RNum(speed_value(channels[3])))

\* Stage6DSmarActMCS2.set_acceleration_xy
SetAccelerationXY ==
    /\ Frame
    /\ \/ Gated("set_acceleration_xy")
       \/ \E umps2 \in AccelerationInputs :
             BodyOf("set_acceleration_xy", <<umps2>>,
                    set_acceleration_xy(handle, channels, umps2), RNone)

\* Stage6DSmarActMCS2.get_acceleration_xy
GetAccelerationXY ==
    /\ Frame
    /\ \/ Gated("get_acceleration_xy")
       \/ Body("get_acceleration_xy",
               acceleration_get(channels[1]) \o acceleration_get(channels[2]),
               RNum(acceleration_value(channels[1])))

\* Stage6DSmarActMCS2.get_status
GetStatus ==
    /\ Frame
    /\ \/ Gated("get_status")
       \/ \E st \in PollInputs \cup { <<2097152, 0, 1>> } :
             Body("get_status", status_reads(st), RList(status_value(st)))

\* Stage6DSmarActMCS2.is_stopped
IsStopped ==
    /\ Frame
    /\ \/ Gated("is_stopped")
       \/ \E st \in StatusInputs :
             Body("is_stopped", status_reads(st), RBool(is_stopped_value(st)))

\* Stage6DSmarActMCS2.get_position, pos[i] the position channel i reports
GetPosition ==
    /\ Frame
    /\ \/ Gated("get_position")
       \/ \E pos \in { <<0, 0, 0>>, <<0, -1500000, 0>> } :
             Body("get_position",
                  [i \in 1..3 |-> CGet64(handle, channels[i].index, "POSITION", pos[i])],
                  RList([i \in 1..3 |-> MicrometerOf[pos[i]]]))

(***************************************************************************)
(* Movement.                                                               *)
(***************************************************************************)
\* an optional argument: <<>> is None, <<v>> is the value v
NoArg == <<>>
Arg(v) == <<v>>

\* the arguments x, y, z of move_relative; z is 0 when left out
RelativeInputs == { <<F5, FHalf, FZero>>, <<FZero, F5, FHalf>> }

\* the arguments x, y, z of move_absolute
AbsoluteInputs ==
    { <<Arg(F5), NoArg, NoArg>>, <<Arg(FZero), NoArg, NoArg>>,
      <<NoArg, Arg(F5), Arg(FHalf)>>, <<NoArg, NoArg, NoArg>> }

\* the same, with every subset of the three axes given
SubsetInputs ==
    [1..3 -> {NoArg, Arg(F5)}] \cup { <<Arg(FZero), NoArg, Arg(FHalf)>> }

\* _Channel.move: the movement_mode setter, then ctl.Move
move(ch, value, mode) ==
    << CSet32(handle, ch.index, "MOVE_MODE", mode),
       CMove(handle, ch.index, PicometerOf[value]) >>

\* smaract.ctl.MoveMode
MoveMode == { "CL_ABSOLUTE", "CL_RELATIVE", "SCAN_ABSOLUTE", "SCAN_RELATIVE", "STEP" }

\* the modes a caller hands to _Channel.move: members of MoveMode, the
\* integer 1 and a string that is no member
ModeInputs == { "CL_ABSOLUTE", "STEP", "1", "absolute" }

\* a variant of the check of line 214 that lets every value pass
is_move_mode_Anything(mode) == TRUE

\* _Channel.movement_mode (setter), line 214: isinstance(mode, ctl.MoveMode)
is_move_mode(mode) == mode \in MoveMode

\* _Channel.move called on the channel of one axis of a connected stage
ChannelMove ==
    /\ constructed
    /\ connected
    /\ pc = "idle"
    /\ UNCHANGED <<driver_loaded, other, moving, sweepVars, constructed, address, open_new_connection, Axis,
                   handle, connected, sessions, owned, pc>>
    /\ \E i \in 1..3, value \in {F5}, mode \in ModeInputs :
          IF is_move_mode(mode)
          THEN /\ HardwareAfter(move(channels[i], value, mode))
               /\ channels' = [channels EXCEPT ![i].movement_mode = mode]
               /\ ReturnOf("_Channel.move", <<i, value, mode>>, "none", RNone,
                           move(channels[i], value, mode))
          ELSE /\ UNCHANGED <<channels, hwVelocity, hwAcceleration, hwMoveMode>>
               /\ ReturnOf("_Channel.move", <<i, value, mode>>, "ValueError", RNone, <<>>)

\* what a move leaves alone
MoveFrame ==
    /\ constructed
    /\ pc = "idle"
    /\ UNCHANGED <<driver_loaded, other, moving, sweepVars, constructed, address, open_new_connection, Axis,
                   handle, connected, sessions, owned>>

MoveGated(op) ==
    /\ Gated(op)
    /\ UNCHANGED <<channels, pc>>

\* a variant of move_relative that moves Z before X and Y
MoveRelative_ZFirst ==
    /\ MoveFrame
    /\ \/ MoveGated("move_relative")
       \/ \E v \in RelativeInputs, wait_for_stopping \in BOOLEAN :
             /\ BodyOf("move_relative", <<v[1], v[2], v[3], wait_for_stopping>>,
                     move(channels[3], v[3], "CL_RELATIVE")
                        \o move(channels[1], v[1], "CL_RELATIVE")
                        \o move(channels[2], v[2], "CL_RELATIVE"),
                     RNone)
             /\ channels' = [i \in 1..3 |->
                                [channels[i] EXCEPT !.movement_mode = "CL_RELATIVE"]]
             /\ pc' = IF wait_for_stopping THEN "waiting" ELSE "idle"

\* Stage6DSmarActMCS2.move_relative up to the call of _wait_for_stopping
MoveRelative ==
    /\ MoveFrame
    /\ \/ MoveGated("move_relative")
       \/ \E v \in RelativeInputs, wait_for_stopping \in BOOLEAN :
             /\ BodyOf("move_relative", <<v[1], v[2], v[3], wait_for_stopping>>,
                     move(channels[1], v[1], "CL_RELATIVE")
                        \o move(channels[2], v[2], "CL_RELATIVE")
                        \o move(channels[3], v[3], "CL_RELATIVE"),
                     RNone)
             /\ channels' = [i \in 1..3 |->
                                [channels[i] EXCEPT !.movement_mode = "CL_RELATIVE"]]
             /\ pc' = IF wait_for_stopping THEN "waiting" ELSE "idle"

\* a variant of move_absolute that tests "if x:" where the code tests
\* "if x is not None:", and so skips a target of 0
MoveAbsoluteOf_SkipsZero(inputs) ==
    /\ MoveFrame
    /\ \/ MoveGated("move_absolute")
       \/ \E v \in inputs, wait_for_stopping \in BOOLEAN :
             LET given(i) == v[i] # NoArg /\ v[i] # Arg(FZero)
                 axis(i) == IF given(i)
                            THEN move(channels[i], v[i][1], "CL_ABSOLUTE")
                            ELSE <<>>
             IN  /\ BodyOf("move_absolute", <<v[1], v[2], v[3], wait_for_stopping>>,
                            axis(1) \o axis(2) \o axis(3), RNone)
                 /\ channels' = [i \in 1..3 |->
                                    IF given(i)
                                    THEN [channels[i] EXCEPT !.movement_mode = "CL_ABSOLUTE"]
                                    ELSE channels[i]]
                 /\ pc' = IF wait_for_stopping THEN "waiting" ELSE "idle"

\* Stage6DSmarActMCS2.move_absolute up to the call of _wait_for_stopping
MoveAbsoluteOf(inputs) ==
    /\ MoveFrame
    /\ \/ MoveGated("move_absolute")
       \/ \E v \in inputs, wait_for_stopping \in BOOLEAN :
             LET axis(i) == IF v[i] # NoArg
                            THEN move(channels[i], v[i][1], "CL_ABSOLUTE")
                            ELSE <<>>
             IN  /\ BodyOf("move_absolute", <<v[1], v[2], v[3], wait_for_stopping>>,
                            axis(1) \o axis(2) \o axis(3), RNone)
                 /\ channels' = [i \in 1..3 |->
                                    IF v[i] # NoArg
                                    THEN [channels[i] EXCEPT !.movement_mode = "CL_ABSOLUTE"]
                                    ELSE channels[i]]
                 /\ pc' = IF wait_for_stopping THEN "waiting" ELSE "idle"

MoveAbsolute == MoveAbsoluteOf(AbsoluteInputs)

\* the number of status polls the wait in progress has made
Polls == Cardinality({i \in 1..Len(calls) : calls[i].p = "CHANNEL_STATE"}) \div 3

\* a variant of _wait_for_stopping whose loop has no break
WaitForStoppingOf_NoBreak(inputs) ==
    /\ pc = "waiting"
    /\ Polls < MaxPolls
    /\ UNCHANGED <<driver_loaded, other, moving, sweepVars, stageVars, hwVars, lastOp, args, err, ret>>
    /\ \E st \in inputs :
          /\ calls' = calls \o status_reads(st)
          /\ pc' = "waiting"

\* _wait_for_stopping: one round of the loop, sleep and then is_stopped,
\* the channels reporting one of `inputs`
WaitForStoppingOf(inputs) ==
    /\ pc = "waiting"
    /\ Polls < MaxPolls
    /\ UNCHANGED <<driver_loaded, other, moving, sweepVars, stageVars, hwVars, lastOp, args, err, ret>>
    /\ \E st \in inputs :
          /\ calls' = calls \o status_reads(st)
          /\ pc' = IF is_stopped_value(st) THEN "idle" ELSE "waiting"

\* a variant of _wait_for_stopping that leaves the loop after one poll
WaitForStopping_OnePoll ==
    /\ pc = "waiting"
    /\ Polls < MaxPolls
    /\ UNCHANGED <<driver_loaded, other, moving, sweepVars, stageVars, hwVars, lastOp, args, err, ret>>
    /\ \E st \in PollInputs :
          /\ calls' = calls \o status_reads(st)
          /\ pc' = "idle"

\* _wait_for_stopping: one round of the loop, sleep and then is_stopped
WaitForStopping == WaitForStoppingOf(PollInputs)

(***************************************************************************)
(* Device discovery.                                                       *)
(***************************************************************************)
NL == "\n"
LocB == <<"B">>

\* what ctl.FindDevices returns
Buffers == { <<>>, LocA, LocB \o <<NL>> \o LocA }

\* what NUMBER_OF_BUS_MODULES is on a device
ModuleCounts == { 1, 2 }

\* Python: s.split(sep) for a one-character sep
RECURSIVE Split(_, _)
Split(s, sep) ==
    IF \A i \in 1..Len(s) : s[i] # sep THEN <<s>>
    ELSE LET k == CHOOSE i \in 1..Len(s) : s[i] = sep /\ \A j \in 1..(i - 1) : s[j] # sep
         IN  <<SubSeq(s, 1, k - 1)>> \o Split(SubSeq(s, k + 1, Len(s)), sep)

\* Python: ord(c)
Ord(c) ==
    CASE c = NL -> 10 [] c = "-" -> 45 [] c = "1" -> 49 [] c = "3" -> 51
      [] c = "4" -> 52 [] c = "6" -> 54 [] c = "A" -> 65 [] c = "B" -> 66
      [] c = "C" -> 67 [] c = "_" -> 95 [] c = "h" -> 104 [] c = "x" -> 120

\* Python: a < b on strings
RECURSIVE StrLess(_, _)
StrLess(a, b) ==
    IF b = <<>> THEN FALSE
    ELSE IF a = <<>> THEN TRUE
    ELSE IF a[1] # b[1] THEN Ord(a[1]) < Ord(b[1])
    ELSE StrLess(Tail(a), Tail(b))

\* the elements of the list find_stage_addresses builds: a string, or []
StrItem(str) == [t |-> "str", v |-> str]
ListItem == [t |-> "list", v |-> <<>>]

\* the loop of find_stage_addresses, lines 71-76, from entry ii on
RECURSIVE SplitLocators(_, _, _, _)
SplitLocators(original, locators, modules, ii) ==
    IF ii > Len(original) THEN locators
    ELSE IF modules[original[ii]] = 2
    THEN SplitLocators(original,
                       Append([locators EXCEPT ![ii] = StrItem(original[ii] \o Suffix123)],
                              StrItem(original[ii] \o Suffix456)),
                       modules, ii + 1)
    ELSE SplitLocators(original, [locators EXCEPT ![ii] = ListItem], modules, ii + 1)

\* Python: sorted(l) compares a str with a list, which raises TypeError
SortRaises(l) == \E i, j \in 1..Len(l) : l[i].t # l[j].t

\* Python: sorted(l), when it does not raise
sorted(l) == SortSeq(l, LAMBDA a, b : a.t = "str" /\ StrLess(a.v, b.v))

\* a variant of is_two_modules that returns without closing the session
is_two_modules_NoClose(locator, d_handle, modules) ==
    << COpen(locator, d_handle),
       CGet32(d_handle, 0, "NUMBER_OF_BUS_MODULES", modules[locator]) >>

\* is_two_modules: the probe of one locator on the probe session d_handle
is_two_modules(locator, d_handle, modules) ==
    << COpen(locator, d_handle),
       CGet32(d_handle, 0, "NUMBER_OF_BUS_MODULES", modules[locator]),
       CClose(d_handle) >>

RECURSIVE Probes(_, _, _)
Probes(locators, d_handle, modules) ==
    IF locators = <<>> THEN <<>>
    ELSE is_two_modules(locators[1], d_handle, modules)
            \o Probes(Tail(locators), d_handle, modules)

\* the handle ctl.Open gives a probe session: one that is not in use
FreeHandle == CHOOSE h \in 1..(MaxHandle + 1) : h \notin sessions /\ \A g \in 1..(h - 1) : g \in sessions

\* the open sessions after the calls cs, of which `open` were open before
RECURSIVE SessionsAfter(_, _)
SessionsAfter(open, cs) ==
    IF cs = <<>> THEN open
    ELSE SessionsAfter(IF cs[1].fn = "Open" THEN open \cup {cs[1].h}
                       ELSE IF cs[1].fn = "Close" THEN open \ {cs[1].h}
                       ELSE open,
                       Tail(cs))

\* the body of find_stage_addresses for the buffer ctl.FindDevices returns and
\* the module count of every device: the calls, the error and the value
Discovery(buffer, modules) ==
    IF buffer = <<>>
    THEN [calls |-> <<CFindDevices(buffer)>>, err |-> "none", ret |-> RList(<<>>)]
    ELSE LET original == Split(buffer, NL)
             locators == SplitLocators(original,
                            [i \in 1..Len(original) |-> StrItem(original[i])],
                            modules, 1)
             probes == Probes(original, FreeHandle, modules)
         IN  IF SortRaises(locators)
             THEN [calls |-> <<CFindDevices(buffer)>> \o probes,
                   err |-> "TypeError", ret |-> RNone]
             ELSE [calls |-> <<CFindDevices(buffer)>> \o probes,
                   err |-> "none", ret |-> RList(sorted(locators))]

\* Stage6DSmarActMCS2.find_stage_addresses
FindStageAddresses ==
    /\ pc = "idle"
    /\ UNCHANGED <<driver_loaded, other, moving, sweepVars, stageVars, owned, hwVelocity, hwAcceleration,
                   hwMoveMode, pc>>
    /\ IF GateError("find_stage_addresses") # "none"
       THEN /\ Return("find_stage_addresses", GateError("find_stage_addresses"),
                      RNone, <<>>)
            /\ UNCHANGED sessions
       ELSE \E buffer \in Buffers, modules \in [{LocA, LocB} -> ModuleCounts] :
               LET d == Discovery(buffer, modules)
               IN  /\ Return("find_stage_addresses", d.err, d.ret, d.calls)
                   /\ sessions' = SessionsAfter(sessions, d.calls)

\* the life cycle, the settings and the status queries of one stage
Next ==
    \/ \E addr \in Addresses : Construct(addr)
    \/ Connect
    \/ Disconnect
    \/ FindReferenceMark
    \/ SetSpeedXY
    \/ GetSpeedXY
    \/ SetSpeedZ
    \/ GetSpeedZ
    \/ SetAccelerationXY
    \/ GetAccelerationXY
    \/ GetStatus
    \/ IsStopped
    \/ GetPosition

Spec == Init /\ [][Next]_vars

\* every public operation, the movements and the discovery included
NextAll ==
    \/ Next
    \/ MoveRelative
    \/ MoveAbsolute
    \/ WaitForStopping
    \/ FindStageAddresses

SpecAll == Init /\ [][NextAll]_vars

\* the movements of one stage
NextMove ==
    \/ \E addr \in { LocA \o Suffix123, LocA \o Suffix456 } : Construct(addr)
    \/ Connect
    \/ Disconnect
    \/ MoveRelative
    \/ MoveAbsoluteOf(SubsetInputs)
    \/ ChannelMove
    \/ WaitForStopping

SpecMove == Init /\ [][NextMove]_vars

\* the addresses the last discovery returned
Discovered ==
    IF lastOp = "find_stage_addresses" /\ err = "none"
    THEN {ret.v[i].v : i \in 1..Len(ret.v)}
    ELSE {}

\* discovery, and the life cycle of a stage made for an address it returned
NextDiscovery ==
    \/ FindStageAddresses
    \/ \E addr \in Discovered : Construct(addr)
    \/ Connect
    \/ Disconnect

SpecDiscovery == Init /\ [][NextDiscovery]_vars

(***************************************************************************)
(* Two stage objects on one controller.                                    *)
(***************************************************************************)
\* the caller turns to the other stage object: the operations that follow
\* are called on it
Switch ==
    /\ pc = "idle"
    /\ other' = [constructed |-> constructed, address |-> address,
                 open_new_connection |-> open_new_connection, Axis |-> Axis,
                 handle |-> handle, channels |-> channels, connected |-> connected,
                 owned |-> owned]
    /\ constructed' = other.constructed
    /\ address' = other.address
    /\ open_new_connection' = other.open_new_connection
    /\ Axis' = other.Axis
    /\ handle' = other.handle
    /\ channels' = other.channels
    /\ connected' = other.connected
    /\ owned' = other.owned
    /\ UNCHANGED <<driver_loaded, moving, sweepVars, sessions, hwVelocity, hwAcceleration, hwMoveMode,
                   pc, lastOp, args, err, ret, calls>>

\* the addresses of the two stages of the controller at LocA
PairAddresses == { LocA \o Suffix123, LocA \o Suffix456 }

\* a primary and a secondary stage of one controller, their connect and
\* disconnect calls and their status queries in any order
NextPair ==
    \/ \E addr \in PairAddresses :
          /\ other.constructed => other.address # addr
          /\ Construct(addr)
    \/ Connect
    \/ Disconnect
    \/ GetStatus
    \/ Switch

SpecPair == Init /\ [][NextPair]_vars

(***************************************************************************)
(* A waiting move, the hardware and a second execution context.            *)
(***************************************************************************)
\* the channels the last operation commanded to move, and those a stop() was
\* called on since
Commanded == {calls[k].ch : k \in {j \in 1..Len(calls) : calls[j].fn = "Move" /\ calls[j].ok}}
Stopped == {calls[k].ch : k \in {j \in 1..Len(calls) : calls[j].fn = "Stop"}}

\* hardware: a channel that was commanded to move starts to move
HardwareStarts ==
    /\ pc = "waiting"
    /\ \E ch \in (Commanded \ Stopped) \ moving : moving' = moving \cup {ch}
    /\ UNCHANGED <<driver_loaded, other, sweepVars, stageVars, hwVars, pc, lastOp, args, err, ret, calls>>

\* hardware: a channel reaches its target
HardwareSettles ==
    /\ \E ch \in moving : moving' = moving \ {ch}
    /\ UNCHANGED <<driver_loaded, other, sweepVars, stageVars, hwVars, pc, lastOp, args, err, ret, calls>>

\* _Channel.stop, called on a moving channel by another execution context
\* while the caller of the move is in _wait_for_stopping
Stop ==
    /\ pc = "waiting"
    /\ \E i \in 1..3 :
          /\ channels[i].index \in moving \ Stopped
          /\ calls' = calls \o <<CStop(handle, channels[i].index)>>
          /\ moving' = moving \ {channels[i].index}
    /\ UNCHANGED <<driver_loaded, other, sweepVars, stageVars, hwVars, pc, lastOp, args, err, ret>>

\* what the three channels report in a poll: the moving flag of those that
\* move, and the flag of the sensor
Reported ==
    { [i \in 1..3 |-> IF channels[i].index \in moving THEN 33 ELSE 32] }

\* a stage whose moves wait, the hardware, and the stop() of another context
NextWait ==
    \/ Construct(LocA \o Suffix123)
    \/ Connect
    \/ MoveRelative
    \/ WaitForStoppingOf(Reported)
    \/ HardwareStarts
    \/ HardwareSettles
    \/ Stop

SpecWait == Init /\ [][NextWait]_vars

\* the same, the thread in _wait_for_stopping running on: it sleeps for
\* `delay` and polls again
SpecWaitFair == SpecWait /\ WF_vars(WaitForStoppingOf(Reported))

(***************************************************************************)
(* InsertionLossSteppedSweep.algorithm.  Wavelengths are whole numbers of  *)
(* a unit; a point of the sweep is the fraction <<numerator, denominator>>.*)
(***************************************************************************)
MaxWavelength == 6      \* the wavelength parameters go from 1 to MaxWavelength
MaxStep == 2            \* the wavelength step goes from 0 to MaxStep

\* what the laser answers for min_lambda and max_lambda
LaserRanges == { [min |-> 2, max |-> 5] }

\* what the power meter answers for power
PowerInputs == { -20, -3 }

\* a call on an instrument: a method, or a property read or written
ICall(i, op, v) == [instr |-> i, op |-> op, v |-> v]

\* Python: int(a / b) for whole a and b, b not 0
TruncDiv(a, b) ==
    LET q == (IF a < 0 THEN -a ELSE a) \div (IF b < 0 THEN -b ELSE b)
    IN  IF (a < 0) # (b < 0) THEN -q ELSE q

\* np.linspace(start, stop, num).tolist() for num >= 0
linspace(start, stop, num) ==
    [i \in 1..num |-> IF num = 1 THEN <<start, 1>>
                      ELSE <<start * (num - 1) + (i - 1) * (stop - start), num - 1>>]

\* what a step of the measurement leaves alone
SweepFrame ==
    UNCHANGED <<driver_loaded, other, moving, stageVars, hwVars, pc, lastOp, args, err, ret,
                calls>>

\* algorithm is called, lines 76-85: the parameters are read
AlgorithmCalled ==
    /\ mpc = "idle"
    /\ SweepFrame
    /\ \E start \in 1..MaxWavelength, stop \in 1..MaxWavelength, step \in 0..MaxStep :
          /\ parameters' = [start |-> start, stop |-> stop, step |-> step]
          /\ start_lambda' = start
          /\ end_lambda' = stop
    /\ mpc' = "called"
    /\ UNCHANGED <<number_of_points, wavelengths, power_data, instr, ilog, data, merr>>

\* a variant of the clamping of the stop wavelength that takes min_lambda
clamped_stop_ToMin(stop, range) ==
    IF stop > range.max \/ stop < range.min THEN range.min ELSE stop

\* lines 111-112
clamped_stop(stop, range) ==
    IF stop > range.max \/ stop < range.min THEN range.max ELSE stop

\* lines 106-107
clamped_start(start, range) ==
    IF start < range.min \/ start > range.max THEN range.min ELSE start

\* lines 88-139: open, clear, clamp the wavelengths, configure both
\* instruments, compute the points
Prepare ==
    /\ mpc = "called"
    /\ SweepFrame
    /\ \E range \in LaserRanges :
          LET center_wavelength == <<start_lambda + end_lambda, 2>>
              start == clamped_start(start_lambda, range)
              stop == clamped_stop(end_lambda, range)
              step == parameters.step
              opened == << ICall("laser", "open", <<>>), ICall("pm", "open", <<>>),
                           ICall("laser", "clear", <<>>), ICall("pm", "clear", <<>>),
                           ICall("laser", "min_lambda", <<range.min>>),
                           ICall("laser", "max_lambda", <<range.max>>) >>
              laser == << ICall("laser", "unit=", <<"dBm">>),
                          ICall("laser", "power=", <<6>>),
                          ICall("laser", "wavelength=", <<start, 1>>) >>
              pm == << ICall("pm", "averagetime=", <<1>>),
                       ICall("pm", "wavelength=", center_wavelength),
                       ICall("pm", "range=", <<10>>),
                       ICall("pm", "unit=", <<"dBm">>),
                       ICall("pm", "averagetime", <<1>>) >>
              points == TruncDiv(stop - start, step) + 1
          IN  /\ start_lambda' = start
              /\ end_lambda' = stop
              /\ parameters' = [parameters EXCEPT !.start = start, !.stop = stop]
              /\ instr' = [instr EXCEPT !.laser_open = TRUE, !.pm_open = TRUE]
              /\ IF step = 0
                 THEN /\ ilog' = opened \o laser
                      /\ merr' = "ZeroDivisionError"
                      /\ mpc' = "failed"
                      /\ UNCHANGED <<number_of_points, wavelengths>>
                 ELSE IF points < 0
                 THEN /\ ilog' = opened \o laser \o pm
                      /\ number_of_points' = points
                      /\ merr' = "ValueError"
                      /\ mpc' = "failed"
                      /\ UNCHANGED wavelengths
                 ELSE /\ ilog' = opened \o laser \o pm
                      /\ number_of_points' = points
                      /\ wavelengths' = linspace(start, stop, points)
                      /\ mpc' = "prepared"
                      /\ UNCHANGED merr
    /\ UNCHANGED <<power_data, data>>

\* line 141
EnableLaser ==
    /\ mpc = "prepared"
    /\ SweepFrame
    /\ ilog' = Append(ilog, ICall("laser", "enable=", <<TRUE>>))
    /\ instr' = [instr EXCEPT !.enable = TRUE]
    /\ mpc' = "sweeping"
    /\ UNCHANGED <<parameters, start_lambda, end_lambda, number_of_points, wavelengths,
                   power_data, data, merr>>

\* a variant of the loop body that samples before it sets the wavelength
SweepPoint_SampleFirst ==
    /\ mpc = "sweeping"
    /\ Len(power_data) < Len(wavelengths)
    /\ SweepFrame
    /\ \E power \in PowerInputs :
          /\ ilog' = ilog \o << ICall("pm", "power", <<power>>),
                                ICall("laser", "wavelength=", wavelengths[Len(power_data) + 1]) >>
          /\ power_data' = Append(power_data, power)
    /\ UNCHANGED <<mpc, parameters, start_lambda, end_lambda, number_of_points, wavelengths,
                   instr, data, merr>>

\* lines 144-154: one round of the loop
SweepPoint ==
    /\ mpc = "sweeping"
    /\ Len(power_data) < Len(wavelengths)
    /\ SweepFrame
    /\ \E power \in PowerInputs :
          /\ ilog' = ilog \o << ICall("laser", "wavelength=", wavelengths[Len(power_data) + 1]),
                                ICall("pm", "power", <<power>>) >>
          /\ power_data' = Append(power_data, power)
    /\ UNCHANGED <<mpc, parameters, start_lambda, end_lambda, number_of_points, wavelengths,
                   instr, data, merr>>

\* lines 156-174: the loop is over
Finish ==
    /\ mpc = "sweeping"
    /\ Len(power_data) = Len(wavelengths)
    /\ SweepFrame
    /\ ilog' = ilog \o << ICall("laser", "enable=", <<FALSE>>),
                          ICall("pm", "range=", <<"auto">>),
                          ICall("laser", "close", <<>>),
                          ICall("pm", "close", <<>>) >>
    /\ instr' = [laser_open |-> FALSE, pm_open |-> FALSE, enable |-> FALSE]
    /\ data' = [transmission |-> power_data, wavelength |-> wavelengths]
    /\ mpc' = "done"
    /\ UNCHANGED <<parameters, start_lambda, end_lambda, number_of_points, wavelengths,
                   power_data, merr>>

\* one call of the measurement
NextSweep ==
    \/ AlgorithmCalled
    \/ Prepare
    \/ EnableLaser
    \/ SweepPoint
    \/ Finish

SpecSweep == Init /\ [][NextSweep]_vars

(***************************************************************************)
(* The conversions and the status translation of a channel, on their own.  *)
(***************************************************************************)
MaxMicrometer == 50     \* whole micrometer values from -MaxMicrometer to MaxMicrometer
MaxStatusCode == 40     \* status codes from 0 to MaxStatusCode

\* 8.2: 0x1.0666666666666p+3
F8_2 == Canon(FALSE, HexBits(<<1, 0, 6, 6, 6, 6, 6, 6, 6, 6, 6, 6, 6, 6>>), -49)
\* 1.5e-6: 0x1.92a737110e454p-20
F1_5eM6 == Canon(FALSE, HexBits(<<1, 9, 2, 10, 7, 3, 7, 1, 1, 0, 14, 4, 5, 4>>), -72)
\* 2.5e-6: 0x1.4f8b588e368f1p-19
F2_5eM6 == Canon(FALSE, HexBits(<<1, 4, 15, 8, 11, 5, 8, 8, 14, 3, 6, 8, 15, 1>>), -71)
\* 2^-19
FTiny == Canon(FALSE, <<1>>, -19)

\* Python: -x on a float that is not zero
FNeg(x) == [x EXCEPT !.neg = ~x.neg]

\* whole numbers of micrometers, up to the largest whose picometers fit
IntegralInputs ==
    { FromInt(v) : v \in (-MaxMicrometer..MaxMicrometer) \cup { -2147, -1000, 1000, 2147 } }

\* values that are no whole number of micrometers, some no whole number of
\* picometers
FractionInputs ==
    { FHalf, FNeg(FHalf), F8_2, FNeg(F8_2), F1_5eM6, F2_5eM6, FTiny, FNeg(FTiny) }

UnitInputs == IntegralInputs \cup FractionInputs

\* _to_picometer on these, computed once, and the picometer values it gives
PicometerOfInput == [x \in UnitInputs |-> to_picometer(x)]
NativeInputs == { PicometerOfInput[x] : x \in UnitInputs }
MicrometerOfInput == [n \in NativeInputs |-> to_micrometer(n)]

\* _Channel._to_picometer, called with a value in micrometers
ToPicometer ==
    /\ pc = "idle"
    /\ UNCHANGED <<driver_loaded, other, moving, sweepVars, stageVars, hwVars, pc>>
    /\ \E micrometer \in UnitInputs :
          ReturnOf("_to_picometer", <<micrometer>>, "none",
                   RNum(PicometerOfInput[micrometer]), <<>>)

\* _Channel._to_micrometer, called with a value in picometers
ToMicrometer ==
    /\ pc = "idle"
    /\ UNCHANGED <<driver_loaded, other, moving, sweepVars, stageVars, hwVars, pc>>
    /\ \E picometer \in NativeInputs :
          ReturnOf("_to_micrometer", <<picometer>>, "none",
                   RNum(MicrometerOfInput[picometer]), <<>>)

\* the status codes a channel reports: the small ones, every flag alone, all
\* flags together, bits that are no flag with and without flags
CodeInputs ==
    (0..MaxStatusCode)
        \cup { ChannelState[i].value : i \in 1..Len(ChannelState) }
        \cup { 2097151, 2097152, 2097153, 3145728, 4194304, 6291456 }

\* humanized_status on these, computed once
HumanizedOfInput == [c \in CodeInputs |-> humanized_status(c)]

\* _Channel.humanized_status of channel i of a connected stage
HumanizedStatus ==
    /\ constructed
    /\ connected
    /\ pc = "idle"
    /\ UNCHANGED <<driver_loaded, other, moving, sweepVars, stageVars, hwVars, pc>>
    /\ \E i \in 1..3, status_code \in CodeInputs :
          ReturnOf("_Channel.humanized_status", <<i>>, "none",
                   RList(HumanizedOfInput[status_code]),
                   <<CGet32(handle, channels[i].index, "CHANNEL_STATE", status_code)>>)

\* one stage, its channels' conversions and status translation
NextUnits ==
    \/ Construct(LocA \o Suffix123)
    \/ Connect
    \/ ToPicometer
    \/ ToMicrometer
    \/ HumanizedStatus

SpecUnits == Init /\ [][NextUnits]_vars

(***************************************************************************)
(* Properties of the life cycle.                                           *)
(***************************************************************************)
Primary == constructed /\ open_new_connection
Secondary == constructed /\ ~open_new_connection

\* the calls of cs to one of the functions fns
CallsOf(cs, fns) == {i \in 1..Len(cs) : cs[i].fn \in fns}

\* the last connect() called Open and did not get the handle 1 from it
OpenGaveNot1 ==
    /\ lastOp = "connect"
    /\ calls # <<>>
    /\ calls[1].fn = "Open"
    /\ ~(calls[1].ok /\ calls[1].h = 1)

\* the last connect() raised inside its try block
RaisedInTry ==
    /\ lastOp = "connect"
    /\ \/ err = "NonLinearSensor"
       \/ /\ err = "CtlError"
          /\ calls[Len(calls)].fn \in {"SetProperty_i64", "GetProperty_s"}

\* C1: when Open gives a primary stage's connect() anything but the handle 1,
\* connect() raises and leaves the stage disconnected, with handle None and no
\* channels, as a freshly constructed stage is.
C1_FailedOpenRollsBack ==
    (Primary /\ OpenGaveNot1) =>
        /\ err # "none"
        /\ ~connected
        /\ handle = None
        /\ channels = <<>>

\* C2: when a channel reports a non-linear sensor, or a call that applies a
\* default raises, connect() raises and leaves connected false, handle None
\* and no channels; after a failed sensor check no speed or acceleration has
\* been written.
C2_TryBlockRollsBack ==
    RaisedInTry =>
        /\ ~connected
        /\ handle = None
        /\ channels = <<>>
        /\ (err = "NonLinearSensor" =>
               CallsOf(calls, {"SetProperty_i64", "SetProperty_i32"}) = {})

\* the Z channel alone reported a non-linear sensor, after X and Y were read
C2_Witness ==
    /\ lastOp = "connect"
    /\ err = "NonLinearSensor"
    /\ Cardinality(CallsOf(calls, {"GetProperty_s"})) = 3
    /\ calls[Len(calls)].ch = AxisValue(Axis, 3)
    /\ ~connected

\* C3: whenever an operation has returned or raised, channels is non-empty
\* exactly when connected is true; after disconnect() returns, connected is
\* false, handle is None and channels is empty.
C3_ChannelsIffConnected ==
    constructed =>
        /\ (channels # <<>>) <=> connected
        /\ (lastOp = "disconnect" /\ err = "none" =>
               ~connected /\ handle = None /\ channels = <<>>)

\* C4: a secondary stage makes no Open and no Close call; its connect()
\* takes the handle 1, its disconnect() sets connected false and handle None
\* and makes no call.
C4_SecondaryNeverOpensOrCloses ==
    Secondary =>
        /\ CallsOf(calls, {"Open", "Close"}) = {}
        /\ sessions = {}
        /\ (connected => handle = 1)
        /\ (lastOp = "disconnect" /\ err = "none" =>
               ~connected /\ handle = None /\ calls = <<>>)

\* a secondary stage was connected and has been disconnected
C4_Witness ==
    /\ Secondary
    /\ lastOp = "disconnect"
    /\ err = "none"
    /\ channels # <<>>
    /\ calls = <<>>

\* C5: a primary stage closes only sessions it opened and that are still
\* open, and while it is disconnected none of the sessions it opened is open.
C5_NoLeakedSession ==
    Primary =>
        /\ owned \subseteq sessions
        /\ (lastOp = "disconnect" /\ err = "none" => Len(calls) = 1 /\ calls[1].h = 1)
        /\ (~connected => owned = {})

\* C7: a stage exists only for an address that ends in "_Ch1-3" or "_Ch4-6",
\* which selects the mapping; for any other address the constructor raises
\* and makes no capability-layer call.
C7_AddressSuffixDecides ==
    /\ constructed =>
          \/ EndsWith(address, Suffix123) /\ Axis = "Ch123" /\ open_new_connection
          \/ EndsWith(address, Suffix456) /\ Axis = "Ch456" /\ ~open_new_connection
    /\ (lastOp = "__init__" /\ err = "InvalidAddress") =>
          /\ ~EndsWith(ret.v, Suffix123)
          /\ ~EndsWith(ret.v, Suffix456)
          /\ calls = <<>>
          /\ ~constructed

\* C8: connect() on a connected stage returns success, makes no
\* capability-layer call, replaces no channel, and leaves handle, channels,
\* connected and the hardware as they are.
C8_ConnectWhenConnectedIsNoOp ==
    [][ (connected /\ lastOp' = "connect") =>
            /\ err' = "none"
            /\ ret' = RBool(TRUE)
            /\ calls' = <<>>
            /\ UNCHANGED <<handle, channels, connected>>
            /\ UNCHANGED hwVars ]_vars

\* connect() returned on a stage that it did not have to connect
C8_Witness ==
    /\ connected
    /\ lastOp = "connect"
    /\ err = "none"
    /\ calls = <<>>

(***************************************************************************)
(* Properties of the settings and the status.                              *)
(***************************************************************************)
\* connect() has just connected the stage
FreshlyConnected ==
    /\ lastOp = "connect"
    /\ err = "none"
    /\ calls # <<>>

\* C9: right after a successful connect() the hardware velocity of X and Y is
\* 300 um/s, that of Z is 20 um/s and the acceleration of X and Y is 0, the
\* getters return 300, 20 and 0, and connect() wrote no acceleration for Z.
C9_DefaultsAfterConnect ==
    [][ /\ FreshlyConnected' =>
              /\ hwVelocity'[AxisValue(Axis', 1)] = 300000000
              /\ hwVelocity'[AxisValue(Axis', 2)] = 300000000
              /\ hwVelocity'[AxisValue(Axis', 3)] = 20000000
              /\ hwAcceleration'[AxisValue(Axis', 1)] = 0
              /\ hwAcceleration'[AxisValue(Axis', 2)] = 0
              /\ \A i \in 1..Len(calls') :
                    ~(calls'[i].p = "MOVE_ACCELERATION" /\ calls'[i].ch = AxisValue(Axis', 3))
        /\ (FreshlyConnected /\ lastOp' = "get_speed_xy") =>
              err' = "none" /\ ret' = RNum(FromInt(300))
        /\ (FreshlyConnected /\ lastOp' = "get_speed_z") =>
              err' = "none" /\ ret' = RNum(FromInt(20))
        /\ (FreshlyConnected /\ lastOp' = "get_acceleration_xy") =>
              err' = "none" /\ ret' = RNum(FromInt(0)) ]_vars

\* get_speed_z() returned 20 on a stage whose other settings are the defaults
C9_Witness ==
    /\ connected
    /\ lastOp = "get_speed_z"
    /\ ret = RNum(FromInt(20))
    /\ hwVelocity[AxisValue(Axis, 1)] = 300000000
    /\ hwAcceleration[AxisValue(Axis, 2)] = 0

\* C10: is_stopped() on a connected stage is true exactly when none of the
\* three status codes read has the ACTIVELY_MOVING bit set, whatever other
\* bits they have.
C10_StoppedIffNoChannelMoving ==
    (lastOp = "is_stopped" /\ err = "none") =>
        /\ connected
        /\ Len(calls) = 3
        /\ \A i \in 1..3 : calls[i].p = "CHANNEL_STATE" /\ calls[i].ch = AxisValue(Axis, i)
        /\ ret = RBool(\A i \in 1..3 : calls[i].v % 2 = 0)

\* is_stopped() was false because the Z channel alone was moving, while the
\* Y channel reported a code with no known flag
C10_Witness ==
    /\ lastOp = "is_stopped"
    /\ ret = RBool(FALSE)
    /\ calls[1].v = 0
    /\ calls[2].v = 2097152
    /\ calls[3].v = 33

(***************************************************************************)
(* Properties of the two requirements of every operation.                  *)
(***************************************************************************)
\* the public operations of a stage other than its construction
StageOperations ==
    { "connect", "disconnect", "find_reference_mark", "find_stage_addresses",
      "set_speed_xy", "get_speed_xy", "set_speed_z", "get_speed_z",
      "set_acceleration_xy", "get_acceleration_xy", "get_status", "is_stopped",
      "get_position", "move_relative", "move_absolute" }

\* the operations called on a stage object, connect() aside
InstanceOperations == StageOperations \ { "connect", "find_stage_addresses" }

\* a call of an operation that one of the two requirements stopped made no
\* capability-layer call and changed nothing
FailedFast ==
    err' \in {"DriverUnavailable", "NotConnected"} =>
        /\ calls' = <<>>
        /\ UNCHANGED <<stageVars, hwVars>>

\* C6 as stated: every operation but the construction raises the
\* driver-unavailable error without the driver, every one of them but
\* connect() raises the not-connected error on a disconnected stage, the
\* driver error first, and neither failure makes a call or changes the stage.
C6_EveryOperationNeedsDriverAndConnection ==
    [][ (pc = "idle" /\ lastOp' \in StageOperations) =>
            /\ ~driver_loaded => err' = "DriverUnavailable"
            /\ (driver_loaded /\ constructed /\ ~connected /\ lastOp' # "connect") =>
                   err' = "NotConnected"
            /\ FailedFast ]_vars

\* C6, amended: the not-connected error is that of the operations called on a
\* stage object; find_stage_addresses needs the driver only.
C6_InstanceOperationsNeedConnection ==
    [][ (pc = "idle" /\ lastOp' \in StageOperations) =>
            /\ ~driver_loaded => err' = "DriverUnavailable"
            /\ (driver_loaded /\ constructed /\ ~connected
                    /\ lastOp' \in InstanceOperations) =>
                   err' = "NotConnected"
            /\ (driver_loaded /\ lastOp' = "find_stage_addresses") =>
                   err' \notin {"DriverUnavailable", "NotConnected"}
            /\ FailedFast ]_vars

\* move_relative() was refused on a stage that had been connected before
C6_Witness ==
    /\ lastOp = "move_relative"
    /\ err = "NotConnected"
    /\ channels # <<>>
    /\ calls = <<>>

(***************************************************************************)
(* Properties of the movements.                                            *)
(***************************************************************************)
\* the last operation was a move of the stage, and its body ran
Moved ==
    /\ lastOp \in {"move_relative", "move_absolute"}
    /\ err = "none"

\* the positions in cs of the calls of fn on the channel ch
CallsOn(cs, fn, ch) == {k \in 1..Len(cs) : cs[k].fn = fn /\ cs[k].ch = ch}

\* the positions in cs of the status reads
StatusReads(cs) == {k \in 1..Len(cs) : cs[k].p = "CHANNEL_STATE"}

\* C11: move_absolute makes one Move call and one mode write on the channel
\* of every axis whose target is not None, a target of 0 included, and no
\* such call on the channel of an axis whose target is None.
C11_AbsoluteMovesGivenAxesOnly ==
    (lastOp = "move_absolute" /\ err = "none") =>
        \A i \in 1..3 :
            LET moves == Cardinality(CallsOn(calls, "Move", AxisValue(Axis, i)))
                writes == Cardinality(CallsOn(calls, "SetProperty_i32", AxisValue(Axis, i)))
            IN  /\ moves = IF args[i] = NoArg THEN 0 ELSE 1
                /\ writes = moves

\* move_absolute(x=0, z=0.5) moved X to 0 and Z, and not Y
C11_Witness ==
    /\ lastOp = "move_absolute"
    /\ err = "none"
    /\ args[1] = Arg(FZero)
    /\ args[2] = NoArg
    /\ \E k \in CallsOn(calls, "Move", AxisValue(Axis, 1)) : calls[k].v = 0
    /\ CallsOn(calls, "Move", AxisValue(Axis, 2)) = {}
    /\ CallsOn(calls, "Move", AxisValue(Axis, 3)) # {}

\* C12: the Move calls of move_relative and move_absolute come in the order
\* X, Y, Z, each on the channel index of its axis; move_relative makes all
\* three; every Move call comes before the first status read of the wait.
C12_MovesInAxisOrder ==
    Moved =>
        LET moves == SelectSeq(calls, LAMBDA c : c.fn = "Move")
            given == {i \in 1..3 : lastOp = "move_relative" \/ args[i] # NoArg}
            nth(k) == CHOOSE i \in given : Cardinality({j \in given : j < i}) = k - 1
        IN  /\ Len(moves) = Cardinality(given)
            /\ \A k \in 1..Len(moves) : moves[k].ch = AxisValue(Axis, nth(k))
            /\ (lastOp = "move_relative" => Len(moves) = 3)
            /\ \A a \in StatusReads(calls), b \in 1..Len(calls) :
                   calls[b].fn = "Move" => b < a

\* move_relative with z left at 0 made its three moves, Z last with 0, and
\* then waited
C12_Witness ==
    /\ lastOp = "move_relative"
    /\ err = "none"
    /\ args[3] = FZero
    /\ args[4]
    /\ calls[6].fn = "Move"
    /\ calls[6].ch = AxisValue(Axis, 3)
    /\ calls[6].v = 0
    /\ StatusReads(calls) # {}
    /\ pc = "idle"

\* C13: a move called with wait has returned only after a status poll, made
\* after its moves, in which no channel was moving, and while it has not
\* returned every poll so far saw a channel moving; a move called without
\* wait returns without a status read.
C13_WaitPollsUntilStopped ==
    Moved =>
        LET reads == StatusReads(calls)
            n == Len(calls)
            stopped(k) == \A j \in 0..2 : calls[k + j].v % 2 = 0
        IN  /\ ~args[4] => pc = "idle" /\ reads = {}
            /\ (args[4] /\ pc = "idle") =>
                   /\ Cardinality(reads) >= 3
                   /\ {n - 2, n - 1, n} \subseteq reads
                   /\ stopped(n - 2)
            /\ (args[4] /\ pc = "waiting") =>
                   /\ Cardinality(reads) % 3 = 0
                   /\ \A k \in reads : (n - k) % 3 = 2 => ~stopped(k)

\* a move returned after a poll that saw the Z channel moving and a second
\* poll that saw none moving
C13_Witness ==
    /\ Moved
    /\ args[4]
    /\ pc = "idle"
    /\ Cardinality(StatusReads(calls)) = 6
    /\ calls[Len(calls) - 3].v = 33

\* the modes of smaract.ctl's MoveMode enumeration
ValidModes == { "CL_ABSOLUTE", "CL_RELATIVE", "SCAN_ABSOLUTE", "SCAN_RELATIVE", "STEP" }

\* the mode under which the last operation moves
ModeOfMove ==
    IF lastOp = "move_relative" THEN "CL_RELATIVE"
    ELSE IF lastOp = "move_absolute" THEN "CL_ABSOLUTE"
    ELSE args[3]

\* C17: every Move call directly follows the write of the call's mode to the
\* MOVE_MODE property of the same channel, which the hardware and the channel
\* then hold; _Channel.move with a mode that is no movement mode raises
\* ValueError, makes no call and leaves the channel's mode as it was.
C17_ModeWrittenBeforeMove ==
    [][ (pc = "idle" /\ lastOp' \in {"move_relative", "move_absolute", "_Channel.move"}) =>
            /\ \A k \in 1..Len(calls') :
                  calls'[k].fn = "Move" =>
                      /\ k > 1
                      /\ calls'[k - 1].fn = "SetProperty_i32"
                      /\ calls'[k - 1].p = "MOVE_MODE"
                      /\ calls'[k - 1].ch = calls'[k].ch
                      /\ calls'[k - 1].s = ModeOfMove'
                      /\ hwMoveMode'[calls'[k].ch] = ModeOfMove'
                      /\ \E i \in 1..3 :
                            /\ channels'[i].index = calls'[k].ch
                            /\ channels'[i].movement_mode = ModeOfMove'
            /\ (lastOp' = "_Channel.move" /\ args'[3] \in ValidModes) =>
                  err' = "none" /\ Len(calls') = 2 /\ calls'[2].fn = "Move"
            /\ (lastOp' = "_Channel.move" /\ args'[3] \notin ValidModes) =>
                  /\ err' = "ValueError"
                  /\ calls' = <<>>
                  /\ UNCHANGED <<channels, hwMoveMode>> ]_vars

\* _Channel.move was refused the string "absolute" as mode
C17_Witness ==
    /\ lastOp = "_Channel.move"
    /\ args[3] = "absolute"
    /\ err = "ValueError"
    /\ calls = <<>>

(***************************************************************************)
(* Properties of the discovery.                                            *)
(***************************************************************************)
\* the body of find_stage_addresses ran in the last operation
Searched ==
    /\ lastOp = "find_stage_addresses"
    /\ err \notin {"DriverUnavailable", "NotConnected"}

\* the positions in cs of the probes' Open calls, and those of devices that
\* reported two modules
ProbeOpens(cs) == {k \in 1..Len(cs) : cs[k].fn = "Open"}
DualOpens(cs) == {k \in ProbeOpens(cs) : cs[k + 1].v = 2}

\* the list l holds the string str
HoldsString(l, str) == \E i \in 1..Len(l) : l[i] = [t |-> "str", v |-> str]

\* the list l holds strings only, in lexicographic order
SortedStrings(l) ==
    /\ \A i \in 1..Len(l) : l[i].t = "str"
    /\ \A i, j \in 1..Len(l) : i < j => ~StrLess(l[j].v, l[i].v)

\* C14: when exactly one of the raw locators reports two modules,
\* find_stage_addresses returns a sorted list that holds that locator with
\* "_Ch1-3" and with "_Ch4-6" and does not hold the locator itself.
C14_OneDualLocatorIsSplit ==
    (Searched /\ Cardinality(DualOpens(calls)) = 1) =>
        LET locator == calls[CHOOSE k \in DualOpens(calls) : TRUE].loc
        IN  /\ err = "none"
            /\ ret.t = "list"
            /\ HoldsString(ret.v, locator \o Suffix123)
            /\ HoldsString(ret.v, locator \o Suffix456)
            /\ ~HoldsString(ret.v, locator)
            /\ SortedStrings(ret.v)

\* the number of raw locators in the buffer of ctl.FindDevices
RawLocators(buffer) ==
    IF buffer = <<>> THEN 0
    ELSE 1 + Cardinality({i \in 1..Len(buffer) : buffer[i] = "\n"})

\* C19: find_stage_addresses opens one probe session for every raw locator,
\* reads it and closes it before the next is opened, and leaves no session
\* open that was not open before; for an empty enumeration it returns the
\* empty list and opens none.
C19_OneProbeSessionAtATime ==
    [][ (pc = "idle" /\ Searched') =>
            LET n == RawLocators(calls'[1].loc)
            IN  /\ calls'[1].fn = "FindDevices"
                /\ Len(calls') = 1 + 3 * n
                /\ \A k \in 1..n :
                      /\ calls'[3 * k - 1].fn = "Open"
                      /\ calls'[3 * k - 1].h \notin sessions
                      /\ calls'[3 * k].fn = "GetProperty_i32"
                      /\ calls'[3 * k].h = calls'[3 * k - 1].h
                      /\ calls'[3 * k + 1].fn = "Close"
                      /\ calls'[3 * k + 1].h = calls'[3 * k - 1].h
                /\ sessions' = sessions
                /\ (n = 0 => err' = "none" /\ ret' = RList(<<>>)) ]_vars

\* two locators were probed while the stage held its own session
C19_Witness ==
    /\ Searched
    /\ Len(calls) = 7
    /\ calls[2].loc # calls[5].loc
    /\ connected
    /\ sessions = {1}

\* C20: find_stage_addresses returns normally, whatever the devices report,
\* and every element of the list is a string that ends in "_Ch1-3" or
\* "_Ch4-6" and that the constructor accepts: two for every locator that
\* reports two modules, none for any other.
C20_OnlyStageAddressesReturned ==
    Searched =>
        /\ err = "none"
        /\ ret.t = "list"
        /\ Len(ret.v) = 2 * Cardinality(DualOpens(calls))
        /\ \A i \in 1..Len(ret.v) :
              /\ ret.v[i].t = "str"
              /\ EndsWith(ret.v[i].v, Suffix123) \/ EndsWith(ret.v[i].v, Suffix456)
              /\ Contains(ret.v[i].v, Tag123) \/ Contains(ret.v[i].v, Tag456)

(***************************************************************************)
(* Properties of the conversions and of the status translation.            *)
(***************************************************************************)
\* the whole number of micrometers the double x is; x is one of IntegralInputs
WholeOf(x) ==
    CHOOSE v \in (-MaxMicrometer..MaxMicrometer) \cup { -2147, -1000, 1000, 2147 } :
        x = FromInt(v)

\* C15: for every whole number v of micrometers, _to_picometer(v) is
\* v * 10^6, and _to_micrometer of that result is v again.
C15_WholeMicrometersRoundTrip ==
    [][ /\ (lastOp' = "_to_picometer" /\ args'[1] \in IntegralInputs) =>
               ret'.v = WholeOf(args'[1]) * 1000000
        /\ (/\ lastOp = "_to_picometer"
            /\ args[1] \in IntegralInputs
            /\ lastOp' = "_to_micrometer"
            /\ args'[1] = ret.v) =>
               ret'.v = args[1] ]_vars

\* the picometers of -2147 um were converted back
C15_Witness ==
    /\ lastOp = "_to_micrometer"
    /\ args[1] = -2147000000
    /\ ret.v = FromInt(-2147)

\* Python: round(x) for a float x, to the nearest integer, ties to even
round(x) ==
    IF x.e >= 0 THEN Trunc(x)
    ELSE LET k == -x.e
             whole == IF k >= Len(x.m) THEN 0 ELSE BitsToNat(SubSeq(x.m, k + 1, Len(x.m)))
             half == k <= Len(x.m) /\ x.m[k] = 1
             rest == \E i \in 1..(k - 1) : i <= Len(x.m) /\ x.m[i] = 1
             mag == IF half /\ (rest \/ whole % 2 = 1) THEN whole + 1 ELSE whole
         IN  IF x.neg THEN -mag ELSE mag

\* C16: _to_picometer(x) is x * 1e6 rounded to the nearest integer, for
\* every x, also one that is no whole number of picometers or is negative.
C16_PicometersAreRounded ==
    lastOp = "_to_picometer" => ret.v = round(FMul(args[1], F1e6))

\* the flags of ChannelState whose bit is set in code
FlagsSet(code) ==
    {i \in 1..Len(ChannelState) : (code \div ChannelState[i].value) % 2 = 1}

\* C18: the humanized status is never empty; it holds exactly the names of
\* the flags whose bit is set in the status code read, each once, and when
\* no flag's bit is set it is the one placeholder that names the code.
C18_HumanizedStatusNamesSetFlags ==
    lastOp = "_Channel.humanized_status" =>
        LET code == calls[1].v
            names == ret.v
        IN  /\ Len(names) > 0
            /\ FlagsSet(code) # {} =>
                  /\ {names[i] : i \in 1..Len(names)}
                        = {ChannelState[i].name : i \in FlagsSet(code)}
                  /\ Len(names) = Cardinality(FlagsSet(code))
            /\ FlagsSet(code) = {} =>
                  names = << "Unknown status code: " \o ToString(code) >>

\* a code with the bit of one flag and a bit that is no flag was translated
C18_Witness ==
    /\ lastOp = "_Channel.humanized_status"
    /\ calls[1].v = 2097153
    /\ ret.v = << "ACTIVELY_MOVING" >>

(***************************************************************************)
(* Properties of two stages on one controller.                             *)
(***************************************************************************)
\* C21: whenever a stage of the pair is connected, the session its handle
\* names is open in the capability layer.
C21_ConnectedStageHasOpenSession ==
    /\ (constructed /\ connected) => handle \in sessions
    /\ (other.constructed /\ other.connected) => other.handle \in sessions

\* the primary stage has just closed the session it opened, and the
\* secondary stage is still connected with the handle of that session
ClosedUnderSecondary ==
    /\ lastOp = "disconnect"
    /\ err = "none"
    /\ open_new_connection
    /\ calls = <<CClose(1)>>
    /\ sessions = {}
    /\ other.constructed
    /\ ~other.open_new_connection
    /\ other.connected
    /\ other.handle = 1

(***************************************************************************)
(* Properties of the wait.                                                 *)
(***************************************************************************)
\* the reads of the poll a step makes, if it makes one
PollOf(before, after) ==
    IF Len(after) = Len(before) + 3 /\ SubSeq(after, 1, Len(before)) = before
          /\ \A k \in (Len(before) + 1)..Len(after) : after[k].p = "CHANNEL_STATE"
    THEN SubSeq(after, Len(before) + 1, Len(after))
    ELSE <<>>

\* no read of the poll shows the ACTIVELY_MOVING bit
ShowsStopped(poll) == poll # <<>> /\ \A k \in 1..Len(poll) : poll[k].v % 2 = 0

\* C22: a caller in _wait_for_stopping returns once the hardware reports no
\* channel moving: when the channels have stopped for good (by themselves or
\* after stop() from another context), the wait ends, and it ends at the
\* next poll; and the wait ends in no other way than by a poll that shows
\* all three channels stopped.
C22_WaitEndsWhenHardwareStopped ==
    /\ []((pc = "waiting" /\ Polls < MaxPolls /\ [](moving = {})) => <>(pc = "idle"))
    /\ [][ /\ (pc = "waiting" /\ moving = {} /\ PollOf(calls, calls') # <<>>) => pc' = "idle"
           /\ (pc = "waiting" /\ pc' = "idle") => ShowsStopped(PollOf(calls, calls')) ]_vars

\* a waiting move returned at its second poll, after another context had
\* stopped a channel that the first poll showed moving
C22_Witness ==
    /\ lastOp = "move_relative"
    /\ err = "none"
    /\ pc = "idle"
    /\ args[4]
    /\ Polls = 2
    /\ \E k \in 2..Len(calls) : calls[k].fn = "Stop" /\ calls[k - 1].v = 33

(***************************************************************************)
(* Properties of the stepped sweep.                                        *)
(***************************************************************************)
\* the positions in ilog of the calls `op` on instrument i
At(i, op) == {k \in 1..Len(ilog) : ilog[k].instr = i /\ ilog[k].op = op}

\* the positions of the property writes, and of the power samples
Writes ==
    {k \in 1..Len(ilog) :
        ilog[k].op \in {"unit=", "power=", "wavelength=", "averagetime=", "range=", "enable="}}
Samples == At("pm", "power")

\* the number of the sample at position k
Rank(k) == Cardinality({j \in Samples : j <= k})

\* the order of the calls so far
SweepOrder ==
    /\ \A k \in Writes : (\E i \in At("laser", "open") : i < k) /\ (\E j \in At("pm", "open") : j < k)
    /\ \A k \in Samples :
          /\ \E i \in At("laser", "enable=") : i < k /\ ilog[i].v = <<TRUE>>
          /\ \A i \in At("laser", "enable=") : i < k => ilog[i].v = <<TRUE>>
          /\ \A c \in At("laser", "close") \cup At("pm", "close") : k < c
          /\ Rank(k) <= Len(wavelengths)
          /\ ilog[k - 1].instr = "laser"
          /\ ilog[k - 1].op = "wavelength="
          /\ ilog[k - 1].v = wavelengths[Rank(k)]
    /\ mpc = "done" =>
          /\ Cardinality(Samples) = Len(wavelengths)
          /\ Len(wavelengths) = number_of_points
          /\ Len(data.transmission) = Len(data.wavelength)
          /\ data.wavelength = wavelengths
          /\ \A k \in Samples : <<data.transmission[Rank(k)]>> = ilog[k].v
          /\ \E i \in At("laser", "enable=") :
                ilog[i].v = <<FALSE>> /\ \A k \in Samples : k < i
          /\ At("laser", "close") # {} /\ At("pm", "close") # {}
          /\ ~instr.laser_open /\ ~instr.pm_open /\ ~instr.enable

\* C23: in algorithm both instruments are opened before any setting is
\* written; the laser is switched on before the first sample and off after
\* the last; each point of the sweep gets exactly one power sample, taken
\* right after that wavelength was set, so the two returned lists have the
\* same length and order; both connections are closed after the sweep; and
\* a start or stop wavelength outside the laser's range is replaced by the
\* minimum or the maximum before the sweep.
C23_SweepOrderAndClamping ==
    [][ /\ SweepOrder'
        /\ (mpc = "called" /\ mpc' # "called") =>
              LET min == ilog'[5].v[1]
                  max == ilog'[6].v[1]
                  outside(x) == x < min \/ x > max
              IN  /\ ilog'[5].op = "min_lambda" /\ ilog'[6].op = "max_lambda"
                  /\ start_lambda' = IF outside(parameters.start) THEN min ELSE parameters.start
                  /\ end_lambda' = IF outside(parameters.stop) THEN max ELSE parameters.stop
                  /\ mpc' = "prepared" =>
                        /\ Len(wavelengths') >= 1 =>
                              wavelengths'[1][1] = start_lambda' * wavelengths'[1][2]
                        /\ Len(wavelengths') >= 2 =>
                              LET last == wavelengths'[Len(wavelengths')]
                              IN  last[1] = end_lambda' * last[2] ]_vars

\* a sweep of four points returned, with different powers
C23_Witness ==
    /\ mpc = "done"
    /\ Len(data.wavelength) = 4
    /\ data.transmission = << -20, -3, -20, -3 >>
    /\ data.wavelength[2] = << 9, 3 >>

====
